---- MODULE Spec2Model ----
(***************************************************************************)
(* ValidAI: the view controller of App.tsx, the project record store, the  *)
(* test plan editor (TestPlanView), the execution simulator               *)
(* (ExecutionRunner.runTests), the report's fix dialog (ReportView) and    *)
(* the history list (HistoryView).                                         *)
(*                                                                         *)
(* JavaScript runs one handler, or one stretch of an async function        *)
(* between two awaits, at a time: every action below is such a stretch.    *)
(* An optional value (T | null | undefined) is a sequence of length <= 1.  *)
(***************************************************************************)
EXTENDS Integers, Sequences, FiniteSets, TLC

\* ---------------------------------------------------------------- bounds
\* projects created in the session (PROJ-<Date.now()> identifiers 1, 2, ...)
MaxProjects == 1
\* test cases in one answer of the model to generateTestCases
MaxCases == 2
\* steps a test case may grow to in an editor
MaxSteps == 2
\* simulator loops (runTests) alive at the same time
MaxLoops == 1
\* how many of the failure reasons the random draw may pick
MaxReasonIdx == 1
\* largest step number the model writes (step editors)
MaxStepNo == 2
\* generateTestCases answers in the session
MaxGenerations == 2
\* generateTestCases calls in flight at the same time
MaxInFlight == 1
\* messages the user may send up to in the specification of the chat alone
MaxChatMsgs == 5
\* requirements in one answer of the model to extractRequirements
MaxReqs == 2
\* messages in the chat transcript
MaxMsgs == 3
MaxAlive == 2
MaxRows == 2
MaxTotal == 201
MaxNotPassed == 2

\* ---------------------------------------------------------------- values
DASHBOARD == "DASHBOARD"
GATHER_REQUIREMENTS == "GATHER_REQUIREMENTS"
REVIEW_PLAN == "REVIEW_PLAN"
EXECUTION == "EXECUTION"
REPORT == "REPORT"
HISTORY == "HISTORY"

AppView == {DASHBOARD, GATHER_REQUIREMENTS, REVIEW_PLAN, EXECUTION, REPORT, HISTORY}

\* the views the sidebar of Layout offers
\* variants of the sidebar offering a view that needs an active project
SidebarWithReport == {DASHBOARD, GATHER_REQUIREMENTS, HISTORY, REPORT}
SidebarWithExecution == {DASHBOARD, GATHER_REQUIREMENTS, HISTORY, EXECUTION}

SidebarViews == {DASHBOARD, GATHER_REQUIREMENTS, HISTORY}

ProjectStatus == {"Draft", "In Progress", "Validated", "Partly Validated", "Failed"}

TestStatus == {"PENDING", "RUNNING", "PASSED", "FAILED"}

\* the reasons array of runTests
reasons ==
  << "Element not found within timeout",
     "Expected text 'Submit' but found 'Save'",
     "API returned 500 Internal Server Error",
     "Button is not clickable",
     "Input validation failed unexpectedly" >>

\* step lists (the stepNumber of each step) the model may answer with: the
\* numbers are whatever the model wrote, contiguous or not
ModelStepLists == { <<1>> }

Null == <<>>

\* ChatInterface: the messages of a transcript (the text of the user stands for any text)
Greeting == [ role |-> "model", text |-> "Hello! I'm your Validation Agent." ]
UserMessage == [ role |-> "user", text |-> "input" ]
ModelMessage(text) == [ role |-> "model", text |-> text ]
ErrorText == "I encountered an error. Please check your connection or API key."
\* "reply" stands for result.text, or for the request to clarify when it is empty
ReplyTexts == { "reply", ErrorText }

\* no handleFinish call in flight
NoRequest == [ cur |-> 0, old |-> 0, captured |-> <<>> ]

Some(x) == <<x>>

VARIABLES
  currentView,    \* App: currentView
  activeProject,  \* App: activeProject (Null or Some(project))
  db,             \* the project record store, by project identifier
  nextId,         \* projects created so far (stands for Date.now() in the id)
  now,            \* generateTestCases answers so far (stands for Date.now() in the ids)
  gateway,        \* the call of a service of the Gateway that is followed attempt by attempt
  loops,          \* the runTests invocations that have not finished
  editForm,       \* TestPlanView: editForm
  selectedTest,   \* ReportView: selectedTest (the fix dialog)
  isFixing,       \* ReportView: the test case an analyzeAndFixTestCase call was sent for
  history,        \* HistoryView: loading / history
  generating,     \* handleGenerateTestCases and handleRefineSubmit calls in flight: the
                  \* project each captured, and the test case to refine (0: generate)
  chat,           \* ChatInterface: messages, sendMessage calls in flight
  extracting,     \* handleFinish calls in flight (cur: of the chat shown, with the
                  \* messages it captured; old: of a chat left)
  importing       \* handleFileChange calls in flight

vars == << currentView, activeProject, db, nextId, now, gateway, loops, editForm, selectedTest,
           isFixing, history, generating, chat, extracting, importing >>

\* ------------------------------------------------------- pure functions
SeqRange(s) == { s[i] : i \in 1..Len(s) }

CountStatus(cases, st) == Cardinality({ i \in 1..Len(cases) : cases[i].status = st })

\* generateTestCases: what the service makes of one test case of the answer
NewTestCase(stamp, index, steps) ==
  [ id |-> << stamp, index >>, requirementId |-> "REQ", title |-> "generated",
    steps |-> steps, status |-> "PENDING", logs |-> <<>>,
    screenshotUrl |-> Null, failedStepNumber |-> Null, failureReason |-> Null ]

\* handleRequirementsGathered / handleFileChange: the new project
NewProject(pid) ==
  [ id |-> pid, name |-> "Imported", platformVersion |-> "1.0.0", status |-> "Draft",
    createdAt |-> pid, requirements |-> << [ id |-> << "REQ", pid, 1 >>, text |-> "a" ] >>,
    testCases |-> <<>>, chatHistory |-> <<>>, environmentConfig |-> Null ]

\* variant of the aggregation in which half of the cases failing is "Failed"
FinalStatusHalfFails(cases) ==
  LET failedCount == CountStatus(cases, "FAILED")
      totalCount == Len(cases)
  IN  IF 2 * failedCount >= totalCount /\ failedCount > 0 THEN "Failed"
      ELSE IF failedCount > 0 THEN "Partly Validated"
      ELSE "Validated"

\* runTests: the aggregation at the end of the pass
FinalStatus(cases) ==
  LET failedCount == CountStatus(cases, "FAILED")
      totalCount == Len(cases)
  IN  IF 2 * failedCount > totalCount THEN "Failed"
      ELSE IF failedCount > 0 THEN "Partly Validated"
      ELSE "Validated"

\* runTests: Math.floor(Math.random() * tc.steps.length) + 1
FailAtStepChoices(steps) == IF Len(steps) = 0 THEN {1} ELSE 1..Len(steps)

\* runTests: the index of the step at which the step loop breaks, 0 if it runs through
BreakIndex(steps, isSuccess, failAtStep) ==
  LET hits == { i \in 1..Len(steps) : ~isSuccess /\ steps[i] = failAtStep }
  IN  IF hits = {} THEN 0 ELSE CHOOSE i \in hits : \A j \in hits : i <= j

\* runTests: the logs captured by the effect closure are those of the first render
consoleLogs == <<>>

\* runTests: the test case written back when its steps are done
Outcome(tc, isSuccess, failAtStep, reasonIdx, randomShot) ==
  LET b == BreakIndex(tc.steps, isSuccess, failAtStep)
      failedStepNumber == IF b = 0 THEN Null ELSE Some(tc.steps[b])
      failureReason == IF b = 0 THEN Null ELSE Some(reasons[reasonIdx])
      status == IF isSuccess THEN "PASSED" ELSE "FAILED"
      resultLine == [ result |-> IF isSuccess THEN "Success" ELSE "Failed at Step",
                      step |-> IF isSuccess THEN Null ELSE failedStepNumber ]
  IN  [ tc EXCEPT !.status = status,
                  !.logs = << resultLine >> \o consoleLogs,
                  !.screenshotUrl = IF ~isSuccess \/ randomShot THEN Some("data:image/png") ELSE Null,
                  !.failedStepNumber = failedStepNumber,
                  !.failureReason = failureReason ]

\* variant of the loop that does not skip PASSED cases
NextRunnableAll(cases, i) == IF i <= Len(cases) THEN i ELSE 0

\* runTests: the first index >= i whose case is not PASSED, 0 if there is none
NextRunnable(cases, i) ==
  LET rest == { j \in i..Len(cases) : cases[j].status # "PASSED" }
  IN  IF rest = {} THEN 0 ELSE CHOOSE j \in rest : \A l \in rest : j <= l

\* TestPlanView.addStep
addStep(steps) == steps \o << Len(steps) + 1 >>

\* TestPlanView.removeStep (index counts from 1 here, from 0 in the code)
removeStep(steps, index) ==
  LET kept == SelectSeq([ i \in 1..Len(steps) |-> << i, steps[i] >> ],
                        LAMBDA p : p[1] # index)
  IN  [ i \in 1..Len(kept) |-> i ]

\* ReportView.addStep
reportAddStep(steps) == steps \o << Len(steps) + 1 >>

\* ReportView.removeStep
reportRemoveStep(steps, index) ==
  LET kept == SelectSeq([ i \in 1..Len(steps) |-> << i, steps[i] >> ],
                        LAMBDA p : p[1] # index)
  IN  [ i \in 1..Len(kept) |-> i ]

\* variant of the selection that does not know Partly Validated
HistoryTargetViewTwo(project) ==
  IF project.status = "Draft" /\ Len(project.testCases) = 0 THEN REVIEW_PLAN
  ELSE IF project.status \in {"Validated", "Failed"} THEN REPORT
  ELSE REVIEW_PLAN

\* handleHistorySelect: the view a selected project is shown in
HistoryTargetView(project) ==
  IF project.status = "Draft" /\ Len(project.testCases) = 0 THEN REVIEW_PLAN
  ELSE IF project.status \in {"Validated", "Failed", "Partly Validated"} THEN REPORT
  ELSE REVIEW_PLAN

\* variant of Save & Retry that leaves the status of the fixed case as it is
SaveAndRetryKeepStatus(cases, fixed) ==
  [ i \in 1..Len(cases) |->
      IF cases[i].id = fixed.id
      THEN [ fixed EXCEPT !.failedStepNumber = Null,
                          !.failureReason = Null, !.screenshotUrl = Null, !.logs = <<>> ]
      ELSE cases[i] ]

\* variant of Save & Retry that queues every FAILED case again
SaveAndRetryAllFailed(cases, fixed) ==
  [ i \in 1..Len(cases) |->
      IF cases[i].id = fixed.id
      THEN [ fixed EXCEPT !.status = "PENDING", !.failedStepNumber = Null,
                          !.failureReason = Null, !.screenshotUrl = Null, !.logs = <<>> ]
      ELSE IF cases[i].status = "FAILED" THEN [ cases[i] EXCEPT !.status = "PENDING" ]
      ELSE cases[i] ]

\* handleSaveAndRetry: the test cases with the fixed one queued again
SaveAndRetryCases(cases, fixed) ==
  [ i \in 1..Len(cases) |->
      IF cases[i].id = fixed.id
      THEN [ fixed EXCEPT !.status = "PENDING", !.failedStepNumber = Null,
                          !.failureReason = Null, !.screenshotUrl = Null, !.logs = <<>> ]
      ELSE cases[i] ]

\* saveTestChanges: the test cases with the edited one replaced
SaveTestCases(cases, form) ==
  [ i \in 1..Len(cases) |-> IF cases[i].id = form.id THEN form ELSE cases[i] ]

\* identifier 0 is the record a session before this one may have left in the store
ProjectIds == 0..MaxProjects

\* getHistory: every stored record
StoredProjects ==
  LET ids == { i \in ProjectIds : db[i] # Null }
      n == Cardinality(ids)
      nth[k \in 1..n] == CHOOSE i \in ids : Cardinality({ j \in ids : j < i }) = k - 1
  IN  [ k \in 1..n |-> db[nth[k]][1] ]

RemoveAt(s, k) == [ i \in 1..(Len(s) - 1) |-> IF i < k THEN s[i] ELSE s[i + 1] ]

\* ------------------------------------------------- the spreadsheet import
\* Text is a sequence of characters. The values sheet_to_json puts in a row are
\* strings, numbers and null; a column without a value is not in the row.
Str(text) == [ kind |-> "string", text |-> text ]
Num(n) == [ kind |-> "number", n |-> n ]
JsNull == [ kind |-> "null" ]
Undefined == [ kind |-> "undefined" ]

\* JavaScript truthiness, as || sees it
Truthy(v) ==
  \/ v.kind = "string" /\ v.text # <<>>
  \/ v.kind = "number" /\ v.n # 0

\* a || b
Or(a, b) == IF Truthy(a) THEN a ELSE b

Digits == << "0", "1", "2", "3", "4", "5", "6", "7", "8", "9" >>

\* String(v) for the values above (numbers of one digit)
StringOf(v) ==
  IF v.kind = "string" THEN v.text
  ELSE IF v.kind = "number"
       THEN << Digits[v.n + 1] >>
       ELSE IF v.kind = "null" THEN << "n", "u", "l", "l" >>
            ELSE << "u", "n", "d", "e", "f", "i", "n", "e", "d" >>

WhiteSpace == { " ", "\t" }

\* String.prototype.trim
RECURSIVE trimStart(_)
trimStart(text) ==
  IF text # <<>> /\ Head(text) \in WhiteSpace THEN trimStart(Tail(text)) ELSE text

RECURSIVE trimEnd(_)
trimEnd(text) ==
  IF text # <<>> /\ text[Len(text)] \in WhiteSpace
  THEN trimEnd(SubSeq(text, 1, Len(text) - 1)) ELSE text

trim(text) == trimEnd(trimStart(text))

\* String.prototype.toLowerCase on the letters that occur
LowerOf(c) ==
  IF c = "H" THEN "h" ELSE IF c = "I" THEN "i" ELSE IF c = "G" THEN "g"
  ELSE IF c = "L" THEN "l" ELSE IF c = "O" THEN "o" ELSE IF c = "W" THEN "w" ELSE c

toLowerCase(text) == [ i \in 1..Len(text) |-> LowerOf(text[i]) ]

\* String.prototype.includes
includes(text, sub) ==
  \E i \in 0..(Len(text) - Len(sub)) : SubSeq(text, i + 1, i + Len(sub)) = sub

\* row[col]: a row is the sequence of its cells in column order
Cell(row, col) ==
  IF \E i \in 1..Len(row) : row[i].col = col
  THEN row[CHOOSE i \in 1..Len(row) : row[i].col = col].val
  ELSE Undefined

\* Object.values(row)[0]
FirstValue(row) == IF row = <<>> THEN Undefined ELSE row[1].val

\* parseExcelRequirements: the description resolved for a row
RowDescription(row) ==
  Or(Or(Or(Cell(row, "Description"), Cell(row, "Requirement")), Cell(row, "desc")),
     FirstValue(row))

\* parseExcelRequirements: the priority of a row, the second if after the first
RowPriority(row) ==
  LET priorityRaw == toLowerCase(StringOf(Or(Cell(row, "Priority"), Str(<< "M", "e", "d", "i", "u", "m" >>))))
      first == IF includes(priorityRaw, << "h", "i", "g", "h" >>) THEN "High" ELSE "Medium"
  IN  IF includes(priorityRaw, << "l", "o", "w" >>) THEN "Low" ELSE first

\* parseExcelRequirements: the type of a row, the second if after the first
RowType(row) ==
  LET typeRaw == toLowerCase(StringOf(Or(Or(Cell(row, "Type"), Cell(row, "Category")),
                                         Str(<< "F", "u", "n", "c", "t", "i", "o", "n", "a", "l" >>))))
      first == IF includes(typeRaw, << "u", "s", "e", "r" >>)
               THEN "User Requirement" ELSE "Functional Requirement"
  IN  IF includes(typeRaw, << "t", "e", "c", "h" >>) THEN "Technical Requirement" ELSE first

\* Array.prototype.filter
RECURSIVE FilterKept(_)
FilterKept(reqs) ==
  IF reqs = <<>> THEN <<>>
  ELSE IF Head(reqs).description # <<>> /\ trim(Head(reqs).description) # <<>>
       THEN << Head(reqs) >> \o FilterKept(Tail(reqs))
       ELSE FilterKept(Tail(reqs))

\* parseExcelRequirements: map with the index of the row, then filter
parseExcelRequirements(jsonData, t) ==
  FilterKept([ index \in 1..Len(jsonData) |->
                 [ id |-> << "REQ-IMPORT", t, index >>,
                   description |-> StringOf(RowDescription(jsonData[index])),
                   type |-> RowType(jsonData[index]),
                   priority |-> RowPriority(jsonData[index]) ] ])

\* Math.round of the quotient a / b of two naturals, b > 0: halves go up
Round(a, b) == (2 * a + b) \div (2 * b)

\* ReportView: const passRate = total > 0 ? Math.round((passed / total) * 100) : 0
passRate(project) ==
  LET passed == CountStatus(project.testCases, "PASSED")
      total == Len(project.testCases)
  IN  IF total > 0 THEN Round(passed * 100, total) ELSE 0

\* ReportView: the badge of the header
HeaderBadge(project) ==
  IF passRate(project) = 100 THEN "Passed" ELSE "Completed with Issues"

\* ---------------------------------------------------- the calls of the Gateway
\* retry(fn, retries = 2, delay = 1000): the defaults every caller relies on
DefaultRetries == 2
DefaultDelay == 1000

\* the services that wrap ai.models.generateContent in retry
GatewayOps == { "extractRequirements", "generateTestCases", "analyzeAndFixTestCase",
                "refineTestCase", "generateTestSuiteCode" }

\* the services that read response.text as JSON
StructuredOps == GatewayOps \ { "generateTestSuiteCode" }

\* what fn() may reject with
TransportErrors == { "error A", "error B" }

\* what fn() may resolve to, by its response.text: JSON of the schema, no text,
\* text that JSON.parse rejects
Responses == { "json", "empty", "malformed" }

\* no call is followed
NoCall == [ op |-> "none", pc |-> "idle", retries |-> 0, delay |-> 0,
            log |-> <<>>, waits |-> <<>>, outcome |-> <<>>, result |-> <<>> ]

NextDelayDouble(delay) == delay * 2

\* retry: delay * 1.5
NextDelay(delay) == (delay * 3) \div 2

\* the rest of a service after retry has settled: a rejection goes to the caller,
\* a structured service throws on an empty text and lets JSON.parse throw,
\* generateTestSuiteCode takes response.text || ''
ServiceResult(op, outcome) ==
  IF ~outcome.ok THEN outcome
  ELSE IF op \in StructuredOps
       THEN IF outcome.what = "empty"
            THEN [ ok |-> FALSE, what |-> "No response from Gemini" ]
            ELSE IF outcome.what = "malformed"
                 THEN [ ok |-> FALSE, what |-> "SyntaxError" ]
                 ELSE [ ok |-> TRUE, what |-> "data" ]
       ELSE [ ok |-> TRUE, what |-> "code" ]

\* ------------------------------------------------------------- the state
AP == activeProject[1]

\* a record of an earlier session: one test case, executed and failed
EarlierProject ==
  LET cases == << Outcome(NewTestCase(0, 1, <<1>>), FALSE, 1, 1, FALSE) >>
  IN  [ id |-> 0, status |-> FinalStatus(cases), testCases |-> cases ]

\* extraction and import calls that may still create a project
InFlightCreations == extracting.cur + extracting.old + importing

Init ==
  /\ currentView = DASHBOARD
  /\ activeProject = Null
  /\ \E earlier \in { Null, Some(EarlierProject) } :
        db = [ i \in ProjectIds |-> IF i = 0 THEN earlier ELSE Null ]
  /\ nextId = 0
  /\ now = 0
  /\ gateway = NoCall
  /\ loops = <<>>
  /\ editForm = Null
  /\ selectedTest = Null
  /\ isFixing = Null
  /\ history = [ loading |-> FALSE, list |-> <<>> ]
  /\ generating = <<>>
  /\ chat = [ messages |-> <<>>, awaiting |-> 0 ]
  /\ extracting = NoRequest
  /\ importing = 0

\* React: what becomes of the state of the view components when App renders view v.
\* A component that stays in place keeps its state; one that is taken out loses
\* it, and what its pending requests set on it afterwards has no effect.
ShowWith(v, requests) ==
  /\ currentView' = v
  /\ editForm' = IF v = REVIEW_PLAN /\ currentView = REVIEW_PLAN THEN editForm ELSE Null
  /\ generating' = IF v = REVIEW_PLAN /\ currentView = REVIEW_PLAN THEN generating
                   ELSE [ i \in 1..Len(generating) |-> [ generating[i] EXCEPT !.shown = FALSE ] ]
  /\ selectedTest' = IF v = REPORT /\ currentView = REPORT THEN selectedTest ELSE Null
  /\ isFixing' = IF v = REPORT /\ currentView = REPORT THEN isFixing ELSE Null
  /\ history' = IF v # HISTORY THEN [ loading |-> FALSE, list |-> <<>> ]
                ELSE IF currentView = HISTORY THEN history
                ELSE [ loading |-> TRUE, list |-> <<>> ]
  /\ chat' = IF v # GATHER_REQUIREMENTS THEN [ messages |-> <<>>, awaiting |-> 0 ]
             ELSE IF currentView = GATHER_REQUIREMENTS THEN chat
             ELSE [ messages |-> << Greeting >>, awaiting |-> 0 ]
  /\ extracting' = IF v = GATHER_REQUIREMENTS /\ currentView = GATHER_REQUIREMENTS THEN requests
                   ELSE [ cur |-> 0, old |-> requests.old + requests.cur, captured |-> <<>> ]

Show(v) == ShowWith(v, extracting)

\* handleUpdateProject: setActiveProject and saveProjectToHistory
handleUpdateProject(updated) ==
  /\ activeProject' = Some(updated)
  /\ db' = [ db EXCEPT ![updated.id] = Some(updated) ]

\* --------------------------------------------------------- App and Layout
\* Layout: a click on Dashboard, New Validation or History in the sidebar
\* (the fix dialog of the report, while open, covers the whole window)
Sidebar(v) ==
  /\ v \in SidebarViews
  /\ selectedTest = Null
  /\ Show(v)
  /\ UNCHANGED << activeProject, db, nextId, now, gateway, loops, importing >>

\* App.handleStartNew: the New Validation Project card of the dashboard
handleStartNew ==
  /\ currentView = DASHBOARD
  /\ Show(GATHER_REQUIREMENTS)
  /\ UNCHANGED << activeProject, db, nextId, now, gateway, loops, importing >>

\* renderDashboard: the Recent Activity card
RecentActivity ==
  /\ currentView = DASHBOARD
  /\ activeProject # Null
  /\ AP.status # "Draft"
  /\ Show(REPORT)
  /\ UNCHANGED << activeProject, db, nextId, now, gateway, loops, importing >>

\* handleRequirementsGathered, and the same lines of handleFileChange
\* (requests: the extraction calls still in flight)
CreateProject(requests) ==
  /\ nextId < MaxProjects
  /\ nextId' = nextId + 1
  /\ handleUpdateProject(NewProject(nextId + 1))
  /\ ShowWith(REVIEW_PLAN, requests)
  /\ UNCHANGED << now, gateway >>

\* App.handleFileChange up to its await: a file is chosen on the dashboard
ImportStart ==
  /\ currentView = DASHBOARD
  /\ nextId + InFlightCreations < MaxProjects
  /\ importing' = importing + 1
  /\ UNCHANGED << currentView, activeProject, db, nextId, now, gateway, loops, editForm, selectedTest,
                  isFixing, history, generating, chat, extracting >>

\* App.handleFileChange after parseExcelRequirements has resolved
ImportDone ==
  /\ importing > 0
  /\ importing' = importing - 1
  /\ CreateProject(extracting)
  /\ UNCHANGED loops

\* App.handleFileChange: parseExcelRequirements has rejected
ImportFailed ==
  /\ importing > 0
  /\ importing' = importing - 1
  /\ UNCHANGED << currentView, activeProject, db, nextId, now, gateway, loops, editForm, selectedTest,
                  isFixing, history, generating, chat, extracting >>

\* ---------------------------------------------------------- ChatInterface
\* variant of handleSend that puts the message of the user in front
SendInFront(limit) ==
  /\ currentView = GATHER_REQUIREMENTS
  /\ extracting.cur = 0
  /\ Len(chat.messages) < limit
  /\ chat' = [ messages |-> << UserMessage >> \o chat.messages,
               awaiting |-> chat.awaiting + 1 ]
  /\ UNCHANGED << currentView, activeProject, db, nextId, now, gateway, loops, editForm, selectedTest,
                  isFixing, history, generating, extracting, importing >>

\* handleSend up to its await, in a transcript of fewer than limit messages
Send(limit) ==
  /\ currentView = GATHER_REQUIREMENTS
  /\ extracting.cur = 0
  /\ Len(chat.messages) < limit
  /\ chat' = [ messages |-> Append(chat.messages, UserMessage),
               awaiting |-> chat.awaiting + 1 ]
  /\ UNCHANGED << currentView, activeProject, db, nextId, now, gateway, loops, editForm, selectedTest,
                  isFixing, history, generating, extracting, importing >>

handleSend == Send(MaxMsgs)

\* handleSend after sendMessage has settled: the reply or the error text is appended
ChatReply(text) ==
  /\ currentView = GATHER_REQUIREMENTS
  /\ chat.awaiting > 0
  /\ text \in ReplyTexts
  /\ chat' = [ messages |-> Append(chat.messages, ModelMessage(text)),
               awaiting |-> chat.awaiting - 1 ]
  /\ UNCHANGED << currentView, activeProject, db, nextId, now, gateway, loops, editForm, selectedTest,
                  isFixing, history, generating, extracting, importing >>

\* handleFinish up to its await
handleFinish ==
  /\ currentView = GATHER_REQUIREMENTS
  /\ Len(chat.messages) > 2
  /\ extracting.cur = 0
  /\ nextId + InFlightCreations < MaxProjects
  /\ extracting' = [ extracting EXCEPT !.cur = 1, !.captured = chat.messages ]
  /\ UNCHANGED << currentView, activeProject, db, nextId, now, gateway, loops, editForm, selectedTest,
                  isFixing, history, generating, chat, importing >>

\* handleFinish after extractRequirements has resolved: onComplete
\* (shown: the request of the chat on screen, else of a chat that was left)
ExtractDone(shown) ==
  /\ IF shown THEN extracting.cur = 1 ELSE extracting.old > 0
  /\ CreateProject(IF shown THEN [ extracting EXCEPT !.cur = 0, !.captured = <<>> ]
                   ELSE [ extracting EXCEPT !.old = extracting.old - 1 ])
  /\ UNCHANGED << loops, importing >>

\* handleFinish: extractRequirements has rejected
ExtractFailed(shown) ==
  /\ IF shown THEN extracting.cur = 1 ELSE extracting.old > 0
  /\ extracting' = IF shown THEN [ extracting EXCEPT !.cur = 0, !.captured = <<>> ]
                   ELSE [ extracting EXCEPT !.old = extracting.old - 1 ]
  /\ UNCHANGED << currentView, activeProject, db, nextId, now, gateway, loops, editForm, selectedTest,
                  isFixing, history, generating, chat, importing >>

\* ----------------------------------------------------------- TestPlanView
\* handleGenerateTestCases up to its await
GenerateStart ==
  /\ currentView = REVIEW_PLAN
  /\ Len(AP.testCases) = 0
  /\ \A i \in 1..Len(generating) : ~generating[i].shown
  /\ Len(generating) < MaxInFlight
  /\ now + Len(generating) < MaxGenerations
  /\ generating' = Append(generating, [ project |-> AP, shown |-> TRUE, tc |-> 0 ])
  /\ UNCHANGED << currentView, activeProject, db, nextId, now, gateway, loops, editForm, selectedTest,
                  isFixing, history, chat, extracting, importing >>

\* handleGenerateTestCases after generateTestCases has resolved with one test
\* case per element of answer, an element being the step numbers of the case
GenerateDone(k, answer) ==
  /\ k \in 1..Len(generating)
  /\ generating[k].tc = 0
  /\ LET project == generating[k].project
         cases == [ i \in 1..Len(answer) |-> NewTestCase(now + 1, i, answer[i]) ]
     IN  handleUpdateProject([ project EXCEPT !.testCases = cases ])
  /\ now' = now + 1
  /\ generating' = RemoveAt(generating, k)
  /\ UNCHANGED << currentView, nextId, gateway, loops, editForm, selectedTest,
                  isFixing, history, chat, extracting, importing >>

\* handleGenerateTestCases: generateTestCases has rejected
GenerateFailed(k) ==
  /\ k \in 1..Len(generating)
  /\ generating[k].tc = 0
  /\ generating' = RemoveAt(generating, k)
  /\ UNCHANGED << currentView, activeProject, db, nextId, now, gateway, loops, editForm, selectedTest,
                  isFixing, history, chat, extracting, importing >>

\* the non-empty step lists the model may answer with, numbered as it likes
ModelSteps == UNION { [ 1..n -> 1..MaxStepNo ] : n \in 1..MaxSteps }

\* step lists with the numbers the model may have written, contiguous or not
EditStepLists ==
  UNION { [ 1..n -> 1..MaxStepNo ] : n \in 0..MaxSteps }

\* what refineTestCase may resolve to: a title and steps
RefineResults == [ title : { "refined" }, steps : ModelSteps ]

\* handleRefineSubmit: the test cases with the title and the steps of the
\* refined one replaced
RefinedCases(cases, tc, result) ==
  [ i \in 1..Len(cases) |->
      IF cases[i].id = tc.id
      THEN [ cases[i] EXCEPT !.title = result.title, !.steps = result.steps ]
      ELSE cases[i] ]

\* handleRefineSubmit up to its await, for test case i of the plan
RefineStart(i) ==
  /\ currentView = REVIEW_PLAN
  /\ i \in 1..Len(AP.testCases)
  /\ \A j \in 1..Len(generating) : ~generating[j].shown
  /\ Len(generating) < MaxInFlight
  /\ generating' = Append(generating, [ project |-> AP, shown |-> TRUE, tc |-> i ])
  /\ editForm' = Null
  /\ UNCHANGED << currentView, activeProject, db, nextId, now, gateway, loops, selectedTest,
                  isFixing, history, chat, extracting, importing >>

\* handleRefineSubmit after refineTestCase has resolved with result
RefineDone(k, result) ==
  /\ k \in 1..Len(generating)
  /\ generating[k].tc > 0
  /\ LET project == generating[k].project
         tc == project.testCases[generating[k].tc]
     IN  handleUpdateProject([ project EXCEPT !.testCases = RefinedCases(@, tc, result) ])
  /\ generating' = RemoveAt(generating, k)
  /\ UNCHANGED << currentView, nextId, now, gateway, loops, editForm, selectedTest,
                  isFixing, history, chat, extracting, importing >>

\* handleRefineSubmit: refineTestCase has rejected
RefineFailed(k) ==
  /\ k \in 1..Len(generating)
  /\ generating[k].tc > 0
  /\ generating' = RemoveAt(generating, k)
  /\ UNCHANGED << currentView, activeProject, db, nextId, now, gateway, loops, editForm, selectedTest,
                  isFixing, history, chat, extracting, importing >>

\* startEditing: the pencil of test case i
startEditing(i) ==
  /\ currentView = REVIEW_PLAN
  /\ i \in 1..Len(AP.testCases)
  /\ editForm' = Some(AP.testCases[i])
  /\ UNCHANGED << currentView, activeProject, db, nextId, now, gateway, loops, selectedTest,
                  isFixing, history, generating, chat, extracting, importing >>

\* cancelEditing
cancelEditing ==
  /\ currentView = REVIEW_PLAN
  /\ editForm # Null
  /\ editForm' = Null
  /\ UNCHANGED << currentView, activeProject, db, nextId, now, gateway, loops, selectedTest,
                  isFixing, history, generating, chat, extracting, importing >>

\* TestPlanView.addStep on the form being edited
EditAddStep ==
  /\ currentView = REVIEW_PLAN
  /\ editForm # Null
  /\ Len(editForm[1].steps) < MaxSteps
  /\ editForm' = Some([ editForm[1] EXCEPT !.steps = addStep(@) ])
  /\ UNCHANGED << currentView, activeProject, db, nextId, now, gateway, loops, selectedTest,
                  isFixing, history, generating, chat, extracting, importing >>

\* TestPlanView.removeStep on the form being edited
EditRemoveStep(index) ==
  /\ currentView = REVIEW_PLAN
  /\ editForm # Null
  /\ index \in 1..Len(editForm[1].steps)
  /\ editForm' = Some([ editForm[1] EXCEPT !.steps = removeStep(@, index) ])
  /\ UNCHANGED << currentView, activeProject, db, nextId, now, gateway, loops, selectedTest,
                  isFixing, history, generating, chat, extracting, importing >>

\* saveTestChanges
saveTestChanges ==
  /\ currentView = REVIEW_PLAN
  /\ editForm # Null
  /\ handleUpdateProject([ AP EXCEPT !.testCases = SaveTestCases(@, editForm[1]) ])
  /\ editForm' = Null
  /\ UNCHANGED << currentView, nextId, now, gateway, loops, selectedTest,
                  isFixing, history, generating, chat, extracting, importing >>

\* the title field of the edit form is typed over
EditTitle(title) ==
  /\ currentView = REVIEW_PLAN
  /\ editForm # Null
  /\ editForm[1].title # title
  /\ editForm' = Some([ editForm[1] EXCEPT !.title = title ])
  /\ UNCHANGED << currentView, activeProject, db, nextId, now, gateway, loops, selectedTest,
                  isFixing, history, generating, chat, extracting, importing >>

\* saveVersion, with tempVersion as typed
saveVersion(tempVersion) ==
  /\ currentView = REVIEW_PLAN
  /\ activeProject # Null
  /\ handleUpdateProject([ AP EXCEPT !.platformVersion = tempVersion ])
  /\ UNCHANGED << currentView, nextId, now, gateway, loops, editForm, selectedTest,
                  isFixing, history, generating, chat, extracting, importing >>

\* variant of saveEnvConfig that writes a project without its transcript
saveEnvConfigOnly(tempEnvConfig) ==
  /\ currentView = REVIEW_PLAN
  /\ activeProject # Null
  /\ handleUpdateProject([ AP EXCEPT !.environmentConfig = Some(tempEnvConfig),
                                     !.chatHistory = <<>> ])
  /\ UNCHANGED << currentView, nextId, now, gateway, loops, editForm, selectedTest,
                  isFixing, history, generating, chat, extracting, importing >>

\* saveEnvConfig, with tempEnvConfig as typed
saveEnvConfig(tempEnvConfig) ==
  /\ currentView = REVIEW_PLAN
  /\ activeProject # Null
  /\ handleUpdateProject([ AP EXCEPT !.environmentConfig = Some(tempEnvConfig) ])
  /\ UNCHANGED << currentView, nextId, now, gateway, loops, editForm, selectedTest,
                  isFixing, history, generating, chat, extracting, importing >>

\* ExecutionRunner is mounted on the project: useState(project.testCases), and
\* the effect calls runTests, which runs up to its first await (id tells the
\* mounted instances alive at once apart)
MountRunner(project) ==
  LET used == { loops[k].id : k \in 1..Len(loops) }
      id == CHOOSE p \in 1..(Len(loops) + 1) : p \notin used /\ \A q \in 1..(p - 1) : q \in used
  IN  Append(loops, [ id |-> id, project |-> project, updatedCases |-> project.testCases,
                      pc |-> "connect", i |-> 0, ran |-> <<>> ])

\* App.handleStartExecution: the Start Execution button of the plan
\* (limit: the bound on the simulator loops alive at once)
StartExecution(limit) ==
  /\ currentView = REVIEW_PLAN
  /\ activeProject # Null
  /\ Len(AP.testCases) > 0
  /\ Len(loops) < limit
  /\ handleUpdateProject([ AP EXCEPT !.status = "In Progress" ])
  /\ Show(EXECUTION)
  /\ loops' = MountRunner([ AP EXCEPT !.status = "In Progress" ])
  /\ UNCHANGED << nextId, now, gateway, importing >>

handleStartExecution == StartExecution(MaxLoops)

\* -------------------------------------------------------- ExecutionRunner
\* variant of the head of the loop that never gets to a case
AdvanceNever(loop, from) == [ loop EXCEPT !.pc = "pause" ]

\* runTests, the head of the for loop taken from index from: the PASSED cases
\* are skipped, the next case is set to RUNNING, and after the last case the
\* loop is left for the await before the aggregation
Advance(loop, from) ==
  LET j == NextRunnable(loop.updatedCases, from)
  IN  IF j = 0
      THEN [ loop EXCEPT !.pc = "report", !.i = Len(loop.updatedCases) + 1 ]
      ELSE [ loop EXCEPT !.pc = "steps", !.i = j,
                         !.updatedCases[j].status = "RUNNING",
                         !.ran = Append(@, j) ]

\* variant of the step after the first await that also saves the project with
\* the case it has set to RUNNING
RunnerConnectedSaving(k) ==
  /\ k \in 1..Len(loops)
  /\ loops[k].pc = "connect"
  /\ LET next == IF CountStatus(loops[k].updatedCases, "PENDING") = 0
                 THEN [ loops[k] EXCEPT !.pc = "noPending" ]
                 ELSE Advance(loops[k], 1)
     IN  /\ loops' = [ loops EXCEPT ![k] = next ]
         /\ handleUpdateProject([ loops[k].project EXCEPT !.testCases = next.updatedCases ])
  /\ UNCHANGED << currentView, nextId, now, gateway, editForm, selectedTest,
                  isFixing, history, generating, chat, extracting, importing >>

\* runTests after the first await: the count of PENDING cases decides
RunnerConnected(k) ==
  /\ k \in 1..Len(loops)
  /\ loops[k].pc = "connect"
  /\ loops' = [ loops EXCEPT ![k] =
                  IF CountStatus(loops[k].updatedCases, "PENDING") = 0
                  THEN [ loops[k] EXCEPT !.pc = "noPending" ]
                  ELSE Advance(loops[k], 1) ]
  /\ UNCHANGED << currentView, activeProject, db, nextId, now, gateway, editForm, selectedTest,
                  isFixing, history, generating, chat, extracting, importing >>

\* runTests: the steps of the RUNNING case are done and its outcome is written.
\* The draws of Math.random are isSuccess, failAtStep, reasonIdx and randomShot.
\* (A case without steps reaches this point without an await in between.)
RunnerFinishCase(k, isSuccess, failAtStep, reasonIdx, randomShot) ==
  /\ k \in 1..Len(loops)
  /\ loops[k].pc = "steps"
  /\ failAtStep \in FailAtStepChoices(loops[k].updatedCases[loops[k].i].steps)
  /\ loops' = [ loops EXCEPT ![k].pc = "pause",
                             ![k].updatedCases[loops[k].i] =
                                Outcome(@, isSuccess, failAtStep, reasonIdx, randomShot) ]
  /\ UNCHANGED << currentView, activeProject, db, nextId, now, gateway, editForm, selectedTest,
                  isFixing, history, generating, chat, extracting, importing >>

\* runTests after the pause behind a case: on to the next case
RunnerNext(k) ==
  /\ k \in 1..Len(loops)
  /\ loops[k].pc = "pause"
  /\ loops' = [ loops EXCEPT ![k] = Advance(loops[k], loops[k].i + 1) ]
  /\ UNCHANGED << currentView, activeProject, db, nextId, now, gateway, editForm, selectedTest,
                  isFixing, history, generating, chat, extracting, importing >>

\* runTests: the timer of the 'No pending tests found' branch fires onComplete
RunnerNoPending(k) ==
  /\ k \in 1..Len(loops)
  /\ loops[k].pc = "noPending"
  /\ Show(REPORT)
  /\ loops' = RemoveAt(loops, k)
  /\ UNCHANGED << activeProject, db, nextId, now, gateway, importing >>

\* runTests after the last await: the project status, onUpdateProject, onComplete
RunnerComplete(k) ==
  /\ k \in 1..Len(loops)
  /\ loops[k].pc = "report"
  /\ handleUpdateProject([ loops[k].project EXCEPT
                             !.testCases = loops[k].updatedCases,
                             !.status = FinalStatus(loops[k].updatedCases) ])
  /\ Show(REPORT)
  /\ loops' = RemoveAt(loops, k)
  /\ UNCHANGED << nextId, now, gateway, importing >>

\* ------------------------------------------------------------- ReportView
\* openFixModal: Fix & Retry on the FAILED test case i
openFixModal(i) ==
  /\ currentView = REPORT
  /\ selectedTest = Null
  /\ i \in 1..Len(AP.testCases)
  /\ AP.testCases[i].status = "FAILED"
  /\ selectedTest' = Some(AP.testCases[i])
  /\ UNCHANGED << currentView, activeProject, db, nextId, now, gateway, loops, editForm,
                  isFixing, history, generating, chat, extracting, importing >>

\* the X and Cancel buttons of the fix dialog
closeFixModal ==
  /\ currentView = REPORT
  /\ selectedTest # Null
  /\ selectedTest' = Null
  /\ UNCHANGED << currentView, activeProject, db, nextId, now, gateway, loops, editForm,
                  isFixing, history, generating, chat, extracting, importing >>

\* handleAiFix up to its await
handleAiFix ==
  /\ currentView = REPORT
  /\ selectedTest # Null
  /\ isFixing = Null
  /\ isFixing' = selectedTest
  /\ UNCHANGED << currentView, activeProject, db, nextId, now, gateway, loops, editForm,
                  selectedTest, history, generating, chat, extracting, importing >>

\* handleAiFix after analyzeAndFixTestCase has resolved with steps
AiFixDone(steps) ==
  /\ currentView = REPORT
  /\ isFixing # Null
  /\ selectedTest' = Some([ isFixing[1] EXCEPT !.steps = steps ])
  /\ isFixing' = Null
  /\ UNCHANGED << currentView, activeProject, db, nextId, now, gateway, loops, editForm,
                  history, generating, chat, extracting, importing >>

\* variant of the failure of handleAiFix that closes the fix dialog
AiFixFailedClosing ==
  /\ currentView = REPORT
  /\ isFixing # Null
  /\ isFixing' = Null
  /\ selectedTest' = Null
  /\ UNCHANGED << currentView, activeProject, db, nextId, now, gateway, loops, editForm,
                  history, generating, chat, extracting, importing >>

\* handleAiFix: analyzeAndFixTestCase has rejected
AiFixFailed ==
  /\ currentView = REPORT
  /\ isFixing # Null
  /\ isFixing' = Null
  /\ UNCHANGED << currentView, activeProject, db, nextId, now, gateway, loops, editForm,
                  selectedTest, history, generating, chat, extracting, importing >>

\* ReportView.addStep in the fix dialog
FixAddStep ==
  /\ currentView = REPORT
  /\ selectedTest # Null
  /\ Len(selectedTest[1].steps) < MaxSteps
  /\ selectedTest' = Some([ selectedTest[1] EXCEPT !.steps = reportAddStep(@) ])
  /\ UNCHANGED << currentView, activeProject, db, nextId, now, gateway, loops, editForm,
                  isFixing, history, generating, chat, extracting, importing >>

\* ReportView.removeStep in the fix dialog
FixRemoveStep(index) ==
  /\ currentView = REPORT
  /\ selectedTest # Null
  /\ index \in 1..Len(selectedTest[1].steps)
  /\ selectedTest' = Some([ selectedTest[1] EXCEPT !.steps = reportRemoveStep(@, index) ])
  /\ UNCHANGED << currentView, activeProject, db, nextId, now, gateway, loops, editForm,
                  isFixing, history, generating, chat, extracting, importing >>

\* handleSaveAndRetry, with App.handleRetryExecution
handleSaveAndRetry ==
  /\ currentView = REPORT
  /\ selectedTest # Null
  /\ Len(loops) < MaxLoops
  /\ LET updated == [ AP EXCEPT !.testCases = SaveAndRetryCases(@, selectedTest[1]),
                                !.status = "In Progress" ]
     IN  /\ handleUpdateProject(updated)
         /\ loops' = MountRunner(updated)
  /\ Show(EXECUTION)
  /\ UNCHANGED << nextId, now, gateway, importing >>

\* onBackToDashboard
onBackToDashboard ==
  /\ currentView = REPORT
  /\ selectedTest = Null
  /\ Show(DASHBOARD)
  /\ UNCHANGED << activeProject, db, nextId, now, gateway, loops, importing >>

\* ------------------------------------------------------------ HistoryView
\* loadHistory after getHistory has resolved
HistoryLoaded ==
  /\ currentView = HISTORY
  /\ history.loading
  /\ history' = [ loading |-> FALSE, list |-> StoredProjects ]
  /\ UNCHANGED << currentView, activeProject, db, nextId, now, gateway, loops, editForm, selectedTest,
                  isFixing, generating, chat, extracting, importing >>

\* loadHistory: getHistory has rejected
HistoryLoadFailed ==
  /\ currentView = HISTORY
  /\ history.loading
  /\ history' = [ loading |-> FALSE, list |-> <<>> ]
  /\ UNCHANGED << currentView, activeProject, db, nextId, now, gateway, loops, editForm, selectedTest,
                  isFixing, generating, chat, extracting, importing >>

\* App.handleHistorySelect: a click on row n of the list
handleHistorySelect(n) ==
  /\ currentView = HISTORY
  /\ n \in 1..Len(history.list)
  /\ activeProject' = Some(history.list[n])
  /\ Show(HistoryTargetView(history.list[n]))
  /\ UNCHANGED << db, nextId, now, gateway, loops, importing >>

\* ---------------------------------------------------------- specification
\* answers of the model to generateTestCases with such step lists
OpsAnswers == UNION { [ 1..n -> ModelSteps ] : n \in 0..MaxCases }

ModelAnswers ==
  UNION { [ 1..n -> ModelStepLists ] : n \in 0..MaxCases }

Next ==
  \/ \E v \in SidebarViews : Sidebar(v)
  \/ handleStartNew
  \/ RecentActivity
  \/ ImportStart
  \/ ImportDone
  \/ ImportFailed
  \/ handleSend
  \/ \E text \in ReplyTexts : ChatReply(text)
  \/ handleFinish
  \/ \E shown \in BOOLEAN : ExtractDone(shown)
  \/ \E shown \in BOOLEAN : ExtractFailed(shown)
  \/ GenerateStart
  \/ \E k \in 1..MaxInFlight, answer \in ModelAnswers : GenerateDone(k, answer)
  \/ \E k \in 1..MaxInFlight : GenerateFailed(k)
  \/ \E i \in 1..MaxCases : startEditing(i)
  \/ cancelEditing
  \/ saveTestChanges
  \/ handleStartExecution
  \/ \E k \in 1..MaxLoops : RunnerConnected(k)
  \/ \E k \in 1..MaxLoops, isSuccess \in BOOLEAN, failAtStep \in 1..MaxSteps,
        reasonIdx \in 1..MaxReasonIdx, randomShot \in BOOLEAN :
          RunnerFinishCase(k, isSuccess, failAtStep, reasonIdx, randomShot)
  \/ \E k \in 1..MaxLoops : RunnerNext(k)
  \/ \E k \in 1..MaxLoops : RunnerNoPending(k)
  \/ \E k \in 1..MaxLoops : RunnerComplete(k)
  \/ \E i \in 1..MaxCases : openFixModal(i)
  \/ closeFixModal
  \/ handleAiFix
  \/ \E steps \in ModelStepLists : AiFixDone(steps)
  \/ AiFixFailed
  \/ handleSaveAndRetry
  \/ onBackToDashboard
  \/ HistoryLoaded
  \/ HistoryLoadFailed
  \/ \E n \in 1..(MaxProjects + 1) : handleHistorySelect(n)

Spec == Init /\ [][Next]_vars

\* ------------------------------------------- specification of a Gateway call
appState == << currentView, activeProject, db, nextId, now, loops, editForm,
               selectedTest, isFixing, history, generating, chat, extracting,
               importing >>

\* a service calls retry(() => ai.models.generateContent(...)) with the defaults
GatewayCall(op) ==
  /\ gateway.pc = "idle"
  /\ gateway' = [ NoCall EXCEPT !.op = op, !.pc = "call",
                                !.retries = DefaultRetries, !.delay = DefaultDelay ]
  /\ UNCHANGED appState

\* retry: one await fn(); a response is returned at once, a rejection is thrown
\* when no retries are left and otherwise starts the timer
retryAttempt(r) ==
  /\ gateway.pc = "call"
  /\ gateway' =
       IF r \in Responses
       THEN [ gateway EXCEPT !.log = Append(@, r), !.pc = "returned",
                             !.outcome = Some([ ok |-> TRUE, what |-> r ]) ]
       ELSE IF gateway.retries <= 0
            THEN [ gateway EXCEPT !.log = Append(@, r), !.pc = "returned",
                                  !.outcome = Some([ ok |-> FALSE, what |-> r ]) ]
            ELSE [ gateway EXCEPT !.log = Append(@, r), !.pc = "wait" ]
  /\ UNCHANGED appState

\* retry: the timer fires and retry(fn, retries - 1, delay * 1.5) starts
retryTimer ==
  /\ gateway.pc = "wait"
  /\ gateway' = [ gateway EXCEPT !.waits = Append(@, gateway.delay),
                                 !.retries = @ - 1,
                                 !.delay = NextDelay(@),
                                 !.pc = "call" ]
  /\ UNCHANGED appState

\* the service continues after the await of retry
serviceReturn ==
  /\ gateway.pc = "returned"
  /\ gateway' = [ gateway EXCEPT !.pc = "done",
                                 !.result = Some(ServiceResult(gateway.op, gateway.outcome[1])) ]
  /\ UNCHANGED appState

NextGateway ==
  \/ \E op \in GatewayOps : GatewayCall(op)
  \/ \E r \in Responses \cup TransportErrors : retryAttempt(r)
  \/ retryTimer
  \/ serviceReturn

SpecGateway == Init /\ [][NextGateway]_vars

\* --------------------------------------- specification of the simulator loops
\* the plan of a project with MaxCases generated test cases, and from there the
\* executions the user can start while an earlier loop is still alive (each of
\* them finds PENDING cases, so the branch without pending cases is not taken)
InitRunners ==
  LET cases == [ i \in 1..MaxCases |-> NewTestCase(1, i, <<1>>) ]
      project == [ id |-> 1, status |-> "Draft", testCases |-> cases ]
  IN  /\ currentView = REVIEW_PLAN
      /\ activeProject = Some(project)
      /\ db = [ i \in ProjectIds |-> IF i = 1 THEN Some(project) ELSE Null ]
      /\ nextId = 1
      /\ now = 1
      /\ gateway = NoCall
      /\ loops = <<>>
      /\ editForm = Null
      /\ selectedTest = Null
      /\ isFixing = Null
      /\ history = [ loading |-> FALSE, list |-> <<>> ]
      /\ generating = <<>>
      /\ chat = [ messages |-> <<>>, awaiting |-> 0 ]
      /\ extracting = NoRequest
      /\ importing = 0

NextRunners ==
  \/ StartExecution(MaxAlive)
  \/ \E k \in 1..MaxAlive : RunnerConnected(k)
  \/ \E k \in 1..MaxAlive, isSuccess, randomShot \in BOOLEAN,
        failAtStep \in 1..MaxSteps, reasonIdx \in 1..MaxReasonIdx :
        RunnerFinishCase(k, isSuccess, failAtStep, reasonIdx, randomShot)
  \/ \E k \in 1..MaxAlive : RunnerNext(k)
  \/ \E k \in 1..MaxAlive : RunnerComplete(k)
  \/ \E v \in SidebarViews : Sidebar(v)
  \/ HistoryLoaded
  \/ \E n \in 1..(MaxProjects + 1) : handleHistorySelect(n)

SpecRunners == InitRunners /\ [][NextRunners]_vars

\* ------------------------ specification of the operations backed by the model
\* the session at the start of one of the four operations: the chat with a
\* transcript long enough to finish, the plan of an imported project without
\* test cases, the plan with one generated test case, or the report of the
\* project with its case executed and failed
InitOps ==
  /\ \E at \in { "chat", "empty plan", "plan", "report" }, steps \in ModelSteps :
       LET tc == NewTestCase(1, 1, steps)
           cases == IF at = "empty plan" THEN <<>>
                    ELSE IF at = "plan" THEN << tc >>
                    ELSE << Outcome(tc, FALSE, 1, 1, FALSE) >>
           project == [ id |-> 1,
                        status |-> IF at = "report" THEN FinalStatus(cases) ELSE "Draft",
                        testCases |-> cases ]
       IN  /\ currentView = IF at = "chat" THEN GATHER_REQUIREMENTS
                            ELSE IF at = "report" THEN REPORT ELSE REVIEW_PLAN
           /\ activeProject = IF at = "chat" THEN Null ELSE Some(project)
           /\ db = [ i \in ProjectIds |-> IF i = 1 /\ at # "chat" THEN Some(project) ELSE Null ]
           /\ nextId = IF at = "chat" THEN 0 ELSE 1
           /\ now = IF at \in { "chat", "empty plan" } THEN 0 ELSE 1
           /\ chat = IF at = "chat"
                     THEN [ messages |-> << Greeting, UserMessage, ModelMessage("reply") >>,
                            awaiting |-> 0 ]
                     ELSE [ messages |-> <<>>, awaiting |-> 0 ]
  /\ gateway = NoCall
  /\ loops = <<>>
  /\ editForm = Null
  /\ selectedTest = Null
  /\ isFixing = Null
  /\ history = [ loading |-> FALSE, list |-> <<>> ]
  /\ generating = <<>>
  /\ extracting = NoRequest
  /\ importing = 0

NextOps ==
  \/ handleFinish
  \/ ExtractDone(TRUE)
  \/ ExtractFailed(TRUE)
  \/ GenerateStart
  \/ \E k \in 1..MaxInFlight, answer \in OpsAnswers : GenerateDone(k, answer)
  \/ \E k \in 1..MaxInFlight : GenerateFailed(k)
  \/ \E i \in 1..MaxCases : RefineStart(i)
  \/ \E k \in 1..MaxInFlight, result \in RefineResults : RefineDone(k, result)
  \/ \E k \in 1..MaxInFlight : RefineFailed(k)
  \/ \E i \in 1..MaxCases : openFixModal(i)
  \/ closeFixModal
  \/ handleAiFix
  \/ \E steps \in ModelSteps : AiFixDone(steps)
  \/ AiFixFailed

SpecOps == InitOps /\ [][NextOps]_vars

\* --------------------------------- specification of the requirements chat
\* the requirements the model may answer an extraction with: a text, and
\* possibly an identifier of the model's own
ModelRequirements ==
  { [ text |-> "a", id |-> Null ], [ text |-> "b", id |-> Some("model") ] }

\* the answers of the model to extractRequirements
ExtractAnswers ==
  [ requirements : UNION { [ 1..k -> ModelRequirements ] : k \in 0..MaxReqs },
    suggestedProjectName : { "", "Suggested" } ]

\* extractRequirements: the identifiers are added locally, at time t
extractRequirements(data, t) ==
  [ requirements |-> [ i \in 1..Len(data.requirements) |->
                         [ data.requirements[i] EXCEPT !.id = Some(<< "REQ", t, i >>) ] ],
    name |-> data.suggestedProjectName ]

\* handleFinish: what is handed to onComplete
FinishData(result, messages) ==
  [ requirements |-> result.requirements,
    name |-> IF result.name = "" THEN "New Validation Project" ELSE result.name,
    chatHistory |-> messages,
    platformVersion |-> "1.0.0" ]

\* handleRequirementsGathered: the new project with all its fields
GatheredProject(data, pid) ==
  [ id |-> pid,
    name |-> IF data.name = "" THEN "Untitled Project" ELSE data.name,
    platformVersion |-> IF data.platformVersion = "" THEN "1.0.0" ELSE data.platformVersion,
    status |-> "Draft",
    createdAt |-> pid,
    requirements |-> data.requirements,
    testCases |-> <<>>,
    chatHistory |-> data.chatHistory,
    environmentConfig |-> Null ]

\* handleFinish after extractRequirements has resolved with data, and
\* handleRequirementsGathered, with the contents of the project
RequirementsGathered(data) ==
  /\ extracting.cur = 1
  /\ nextId < MaxProjects
  /\ nextId' = nextId + 1
  /\ handleUpdateProject(
        GatheredProject(FinishData(extractRequirements(data, nextId + 1), extracting.captured),
                        nextId + 1))
  /\ ShowWith(REVIEW_PLAN, [ extracting EXCEPT !.cur = 0, !.captured = <<>> ])
  /\ UNCHANGED << now, gateway, loops, importing >>

\* the session after New Validation has been chosen on the dashboard
InitChat ==
  /\ currentView = GATHER_REQUIREMENTS
  /\ activeProject = Null
  /\ \E earlier \in { Null, Some(EarlierProject) } :
        db = [ i \in ProjectIds |-> IF i = 0 THEN earlier ELSE Null ]
  /\ nextId = 0
  /\ now = 0
  /\ gateway = NoCall
  /\ loops = <<>>
  /\ editForm = Null
  /\ selectedTest = Null
  /\ isFixing = Null
  /\ history = [ loading |-> FALSE, list |-> <<>> ]
  /\ generating = <<>>
  /\ chat = [ messages |-> << Greeting >>, awaiting |-> 0 ]
  /\ extracting = NoRequest
  /\ importing = 0

NextChat ==
  \/ Send(MaxChatMsgs)
  \/ \E text \in ReplyTexts : ChatReply(text)
  \/ handleFinish
  \/ ExtractFailed(TRUE)
  \/ \E data \in ExtractAnswers : RequirementsGathered(data)

SpecChat == InitChat /\ [][NextChat]_vars

\* ------------------------------------------ specification of an execution pass
\* the plan of a project whose test cases have the step lists generation and
\* editing can leave: empty, or numbered as the model liked
InitExec ==
  /\ \E steps \in [ 1..MaxCases -> EditStepLists ] :
       LET cases == [ i \in 1..MaxCases |-> NewTestCase(1, i, steps[i]) ]
           project == [ NewProject(1) EXCEPT !.testCases = cases ]
       IN  /\ activeProject = Some(project)
           /\ db = [ i \in ProjectIds |-> IF i = 1 THEN Some(project) ELSE Null ]
  /\ currentView = REVIEW_PLAN
  /\ nextId = 1
  /\ now = 1
  /\ gateway = NoCall
  /\ loops = <<>>
  /\ editForm = Null
  /\ selectedTest = Null
  /\ isFixing = Null
  /\ history = [ loading |-> FALSE, list |-> <<>> ]
  /\ generating = <<>>
  /\ chat = [ messages |-> <<>>, awaiting |-> 0 ]
  /\ extracting = NoRequest
  /\ importing = 0

NextExec ==
  \/ handleStartExecution
  \/ \E k \in 1..MaxLoops : RunnerConnected(k)
  \/ \E k \in 1..MaxLoops, isSuccess \in BOOLEAN, failAtStep \in 1..MaxSteps,
        reasonIdx \in 1..MaxReasonIdx, randomShot \in BOOLEAN :
          RunnerFinishCase(k, isSuccess, failAtStep, reasonIdx, randomShot)
  \/ \E k \in 1..MaxLoops : RunnerNext(k)
  \/ \E k \in 1..MaxLoops : RunnerComplete(k)

SpecExec == InitExec /\ [][NextExec]_vars

\* ------------------------------------------- specification of the report header
\* the dashboard with a project of up to MaxTotal test cases of which at most
\* MaxNotPassed are not PASSED: FAILED after a pass, or PENDING in a pass that
\* is not over
InitReport ==
  /\ \E total \in 1..MaxTotal, notPassed \in 0..MaxNotPassed, failed \in BOOLEAN :
       /\ notPassed <= total
       /\ LET made == [ i \in 1..total |-> NewTestCase(1, i, <<1>>) ]
              cases == [ i \in 1..total |->
                           IF i > notPassed THEN Outcome(made[i], TRUE, 1, 1, FALSE)
                           ELSE IF failed THEN Outcome(made[i], FALSE, 1, 1, FALSE)
                           ELSE made[i] ]
              project == [ NewProject(1) EXCEPT
                             !.testCases = cases,
                             !.status = IF failed \/ notPassed = 0 THEN FinalStatus(cases)
                                        ELSE "In Progress" ]
          IN  /\ activeProject = Some(project)
              /\ db = [ i \in ProjectIds |-> IF i = 1 THEN Some(project) ELSE Null ]
  /\ currentView = DASHBOARD
  /\ nextId = 1
  /\ now = 1
  /\ gateway = NoCall
  /\ loops = <<>>
  /\ editForm = Null
  /\ selectedTest = Null
  /\ isFixing = Null
  /\ history = [ loading |-> FALSE, list |-> <<>> ]
  /\ generating = <<>>
  /\ chat = [ messages |-> <<>>, awaiting |-> 0 ]
  /\ extracting = NoRequest
  /\ importing = 0

NextReport ==
  \/ RecentActivity
  \/ onBackToDashboard

SpecReport == InitReport /\ [][NextReport]_vars

\* ------------------------------------ specification of the life of a project
\* what the user may type as title, platform version and environment
Titles == { "typed" }
Versions == { "2.0.0" }
EnvConfigs == { "staging" }

\* what refineTestCase resolves to in this specification
PlanResults == [ title : { "refined" }, steps : ModelStepLists ]

\* the plan of a project gathered in the chat, before or after the generation
\* of its test cases
InitPlan ==
  /\ \E generated \in BOOLEAN :
       LET messages == << Greeting, UserMessage, ModelMessage("reply") >>
           answer == [ requirements |-> << [ text |-> "a", id |-> Null ] >>,
                       suggestedProjectName |-> "Suggested" ]
           created == GatheredProject(FinishData(extractRequirements(answer, 1), messages), 1)
           cases == IF generated THEN [ i \in 1..MaxCases |-> NewTestCase(1, i, <<1>>) ]
                    ELSE <<>>
           project == [ created EXCEPT !.testCases = cases ]
       IN  /\ activeProject = Some(project)
           /\ db = [ i \in ProjectIds |-> IF i = 1 THEN Some(project) ELSE Null ]
           /\ now = IF generated THEN 1 ELSE 0
  /\ currentView = REVIEW_PLAN
  /\ nextId = 1
  /\ gateway = NoCall
  /\ loops = <<>>
  /\ editForm = Null
  /\ selectedTest = Null
  /\ isFixing = Null
  /\ history = [ loading |-> FALSE, list |-> <<>> ]
  /\ generating = <<>>
  /\ chat = [ messages |-> <<>>, awaiting |-> 0 ]
  /\ extracting = NoRequest
  /\ importing = 0

NextPlan ==
  \/ GenerateStart
  \/ \E k \in 1..MaxInFlight, answer \in ModelAnswers : GenerateDone(k, answer)
  \/ \E i \in 1..MaxCases : startEditing(i)
  \/ \E title \in Titles : EditTitle(title)
  \/ saveTestChanges
  \/ \E i \in 1..MaxCases : RefineStart(i)
  \/ \E k \in 1..MaxInFlight, result \in PlanResults : RefineDone(k, result)
  \/ \E tempVersion \in Versions : saveVersion(tempVersion)
  \/ \E tempEnvConfig \in EnvConfigs : saveEnvConfig(tempEnvConfig)
  \/ handleStartExecution
  \/ \E k \in 1..MaxLoops : RunnerConnected(k)
  \/ \E k \in 1..MaxLoops, isSuccess \in BOOLEAN, failAtStep \in 1..MaxSteps,
        reasonIdx \in 1..MaxReasonIdx :
          RunnerFinishCase(k, isSuccess, failAtStep, reasonIdx, FALSE)
  \/ \E k \in 1..MaxLoops : RunnerNext(k)
  \/ \E k \in 1..MaxLoops : RunnerComplete(k)
  \/ \E i \in 1..MaxCases : openFixModal(i)
  \/ handleSaveAndRetry

SpecPlan == InitPlan /\ [][NextPlan]_vars

\* ------------------------------------ specification of the spreadsheet import
\* the columns a description may stand in: the three the parser knows and another
DescColumns == { "Description", "Requirement", "desc", "Title" }

\* values of a description cell: text, blank text, a number, null
DescValues ==
  { Str(<< "a" >>), Str(<<>>), Str(<< " " >>), Str(<< " ", "a" >>), JsNull, Num(0), Num(5) }

\* values of a Priority cell
PriorityValues ==
  { Str(<< "H", "i", "g", "h" >>), Str(<< "H", "I", "G", "H" >>), Str(<< "L", "o", "w" >>),
    Str(<< "h", "i", "g", "h", "/", "l", "o", "w" >>), Str(<< "x" >>), Num(0) }

\* the rows of a sheet: a description cell or none, then a Priority cell or
\* none, and at least one cell with a value that is not null (sheet_to_json
\* leaves out the rows without values)
ImportRows ==
  { row \in { d \o q :
                d \in { <<>> } \cup { << [ col |-> c, val |-> v ] >> : c \in DescColumns, v \in DescValues },
                q \in { <<>> } \cup { << [ col |-> "Priority", val |-> v ] >> : v \in PriorityValues } } :
      \E i \in 1..Len(row) : row[i].val # JsNull }

Sheets == UNION { [ 1..n -> ImportRows ] : n \in 1..MaxRows }

\* handleFileChange after parseExcelRequirements has read jsonData from the file
FileImported(jsonData) ==
  /\ importing > 0
  /\ importing' = importing - 1
  /\ nextId < MaxProjects
  /\ nextId' = nextId + 1
  /\ handleUpdateProject([ NewProject(nextId + 1) EXCEPT
                             !.requirements = parseExcelRequirements(jsonData, nextId + 1) ])
  /\ ShowWith(REVIEW_PLAN, extracting)
  /\ UNCHANGED << now, gateway, loops >>

NextImport ==
  \/ ImportStart
  \/ ImportFailed
  \/ \E jsonData \in Sheets : FileImported(jsonData)

SpecImport == Init /\ [][NextImport]_vars

\* ------------------------------------------ specification of the step editors
\* the session after an import and a generation that answered one test case
\* with the steps of EditStepLists: either the plan is shown, or the case has
\* been executed, has failed, and the report is shown
InitEdit ==
  /\ \E steps \in EditStepLists, executed \in BOOLEAN :
       \E failAtStep \in FailAtStepChoices(steps) :
         LET tc == NewTestCase(1, 1, steps)
             cases == IF executed THEN << Outcome(tc, FALSE, failAtStep, 1, FALSE) >>
                      ELSE << tc >>
             project == [ id |-> 1,
                          status |-> IF executed THEN FinalStatus(cases) ELSE "Draft",
                          testCases |-> cases ]
         IN  /\ currentView = IF executed THEN REPORT ELSE REVIEW_PLAN
             /\ activeProject = Some(project)
             /\ db = [ i \in ProjectIds |-> IF i = 1 THEN Some(project) ELSE Null ]
  /\ nextId = 1
  /\ now = 1
  /\ gateway = NoCall
  /\ loops = <<>>
  /\ editForm = Null
  /\ selectedTest = Null
  /\ isFixing = Null
  /\ history = [ loading |-> FALSE, list |-> <<>> ]
  /\ generating = <<>>
  /\ chat = [ messages |-> <<>>, awaiting |-> 0 ]
  /\ extracting = NoRequest
  /\ importing = 0

NextEdit ==
  \/ \E i \in 1..MaxCases : startEditing(i)
  \/ cancelEditing
  \/ EditAddStep
  \/ \E index \in 1..MaxSteps : EditRemoveStep(index)
  \/ saveTestChanges
  \/ \E i \in 1..MaxCases : openFixModal(i)
  \/ closeFixModal
  \/ handleAiFix
  \/ \E steps \in EditStepLists : AiFixDone(steps)
  \/ AiFixFailed
  \/ FixAddStep
  \/ \E index \in 1..MaxSteps : FixRemoveStep(index)

SpecEdit == InitEdit /\ [][NextEdit]_vars

\* ------------------------------------------------------- checked properties
Terminal == {"Validated", "Partly Validated", "Failed"}

\* the aggregation rule as the data model states it, over n cases of which f failed
AggregationRule(n, f) ==
  IF f = 0 THEN "Validated"
  ELSE IF f <= n \div 2 THEN "Partly Validated"
  ELSE "Failed"

RuleOf(cases) == AggregationRule(Len(cases), CountStatus(cases, "FAILED"))

\* C1: a pass that runs the loop to its end writes the status the aggregation
\* rule gives for the statuses of its n test cases, f of them FAILED
C1_Aggregate ==
  [][ \A k \in 1..MaxLoops :
        RunnerComplete(k) =>
          /\ activeProject'[1].testCases = loops[k].updatedCases
          /\ activeProject'[1].status = RuleOf(loops[k].updatedCases) ]_vars

C1_Witness ==
  /\ currentView = REPORT
  /\ activeProject # Null
  /\ AP.status = "Partly Validated"
  /\ Len(AP.testCases) = 2
  /\ CountStatus(AP.testCases, "FAILED") = 1

\* C2: whenever the simulator calls onComplete, the active project's status is
\* Validated, Partly Validated or Failed and is what the rule gives for its cases
C2_Handoff ==
  [][ \A k \in 1..MaxLoops :
        (RunnerComplete(k) \/ RunnerNoPending(k)) =>
          /\ activeProject'[1].status \in Terminal
          /\ activeProject'[1].status = RuleOf(activeProject'[1].testCases) ]_vars

\* the indices of the cases of a list that are not PASSED, in list order
NotPassed(cases) ==
  SelectSeq([ i \in 1..Len(cases) |-> i ], LAMBDA i : cases[i].status # "PASSED")

\* C3: a pass that has come to its end has set to RUNNING, in list order, every
\* case that was not PASSED when it started
C3_AllNotPassedRun ==
  \A k \in 1..Len(loops) :
    loops[k].pc \in {"report", "noPending"} =>
      loops[k].ran = NotPassed(loops[k].project.testCases)

\* a loop has left alone the cases that were PASSED when it started
PassedUntouched(loop) ==
  \A i \in 1..Len(loop.project.testCases) :
    loop.project.testCases[i].status = "PASSED" =>
      /\ loop.updatedCases[i] = loop.project.testCases[i]
      /\ i \notin SeqRange(loop.ran)

\* C4: a case that is PASSED when a pass starts is never set to RUNNING in the
\* pass and is written back unchanged when the pass ends; a pass over cases
\* that are all PASSED writes nothing
C4_PassedUntouched ==
  [][ /\ \A k \in 1..Len(loops') : PassedUntouched(loops'[k])
      /\ \A k \in 1..MaxLoops :
           RunnerComplete(k) =>
             \A i \in 1..Len(loops[k].project.testCases) :
               loops[k].project.testCases[i].status = "PASSED" =>
                 activeProject'[1].testCases[i] = loops[k].project.testCases[i]
      /\ \A k \in 1..MaxLoops :
           (RunnerNoPending(k) /\ NotPassed(loops[k].project.testCases) = <<>>) =>
             UNCHANGED << activeProject, db >> ]_vars

C4_Witness ==
  \E k \in 1..Len(loops) :
    /\ loops[k].pc = "report"
    /\ loops[k].ran # <<>>
    /\ \E i \in 1..Len(loops[k].project.testCases) :
         /\ loops[k].project.testCases[i].status = "PASSED"
         /\ loops[k].project.testCases[i].screenshotUrl # Null

\* the status changes between two states in the lists of the loops
LoopMoves ==
  IF Len(loops') # Len(loops) THEN {}
  ELSE UNION { { << loops[k].updatedCases[i].status, loops'[k].updatedCases[i].status >> :
                   i \in 1..Len(loops[k].updatedCases) } : k \in 1..Len(loops) }

\* the status changes between two states in the cases of the active project
ProjectMoves ==
  { << AP.testCases[i].status, activeProject'[1].testCases[i].status >> :
      i \in 1..Len(AP.testCases) }

Unchanged == { << st, st >> : st \in TestStatus }

C6_FixQueued ==
  [][ handleSaveAndRetry =>
        \E i \in 1..Len(activeProject'[1].testCases) :
          LET tc == activeProject'[1].testCases[i]
          IN  /\ tc.id = selectedTest[1].id
              /\ tc.steps = selectedTest[1].steps
              /\ tc.status = "PENDING"
              /\ tc.failedStepNumber = Null
              /\ tc.failureReason = Null
              /\ tc.screenshotUrl = Null
              /\ tc.logs = <<>> ]_vars

\* C8: ReviewPlan, Execution and Report are shown only with an active project
C8_ActiveProject ==
  currentView \in {REVIEW_PLAN, EXECUTION, REPORT} => activeProject # Null

C8_Witness ==
  /\ currentView = REVIEW_PLAN
  /\ activeProject # Null
  /\ AP.status = "Draft"
  /\ AP.testCases = <<>>

\* the transitions the view controller is described with
ListedMoves ==
  { << DASHBOARD, GATHER_REQUIREMENTS >>, << DASHBOARD, HISTORY >>,
    << GATHER_REQUIREMENTS, REVIEW_PLAN >>, << REVIEW_PLAN, EXECUTION >>,
    << EXECUTION, REPORT >>, << REPORT, EXECUTION >>, << REPORT, DASHBOARD >>,
    << HISTORY, REVIEW_PLAN >>, << HISTORY, REPORT >> }

\* C9 (as claimed): the view starts at Dashboard and changes only along the
\* listed transitions
C9_ListedMoves ==
  /\ currentView = DASHBOARD
  /\ [][ currentView' # currentView => << currentView, currentView' >> \in ListedMoves ]_vars

\* every view to the three views of the sidebar, to ReviewPlan and to Report;
\* to Execution only from ReviewPlan and Report
ActualMoves ==
  (AppView \X {DASHBOARD, GATHER_REQUIREMENTS, HISTORY, REVIEW_PLAN, REPORT})
    \cup { << REVIEW_PLAN, EXECUTION >>, << REPORT, EXECUTION >> }

\* C9 (amended): the view starts at Dashboard; Execution is entered only from
\* ReviewPlan and from Report, every other view can be entered from any view
C9_ActualMoves ==
  /\ currentView = DASHBOARD
  /\ [][ currentView' # currentView => << currentView, currentView' >> \in ActualMoves ]_vars

C9_Witness ==
  /\ currentView = EXECUTION
  /\ loops # <<>>
  /\ loops[Len(loops)].pc = "connect"
  /\ AP.status = "In Progress"

\* C10: selecting a project in History makes it the active project and shows
\* Report exactly when its status is Validated, Partly Validated or Failed,
\* and ReviewPlan otherwise
C10_HistorySelect ==
  [][ \A n \in 1..(MaxProjects + 1) :
        handleHistorySelect(n) =>
          /\ activeProject' = Some(history.list[n])
          /\ IF history.list[n].status \in Terminal
             THEN currentView' = REPORT
             ELSE currentView' = REVIEW_PLAN ]_vars

C10_Witness ==
  /\ currentView = REVIEW_PLAN
  /\ activeProject # Null
  /\ AP.status = "In Progress"

Contiguous(steps) == steps = [ i \in 1..Len(steps) |-> i ]

\* C7: after every add-step and every remove-step edit, in the plan editor and
\* in the fix dialog, the steps are numbered 1, 2, ..., n in list order
C7_Numbering ==
  [][ /\ (EditAddStep \/ \E index \in 1..MaxSteps : EditRemoveStep(index))
           => Contiguous(editForm'[1].steps)
      /\ (FixAddStep \/ \E index \in 1..MaxSteps : FixRemoveStep(index))
           => Contiguous(selectedTest'[1].steps) ]_vars

\* ------------------------------------------------- the timers of the simulator
\* a step of the simulator loop p: each one is the firing of a timer of runTests
RunnerStep(p) ==
  \E k \in 1..Len(loops) :
    /\ loops[k].id = p
    /\ \/ RunnerConnected(k)
       \/ \E isSuccess \in BOOLEAN, failAtStep \in 1..MaxSteps,
             reasonIdx \in 1..MaxReasonIdx, randomShot \in BOOLEAN :
               RunnerFinishCase(k, isSuccess, failAtStep, reasonIdx, randomShot)
       \/ RunnerNext(k)
       \/ RunnerNoPending(k)
       \/ RunnerComplete(k)

\* the application with timers that fire, those of every loop alive
SpecTimers == Init /\ [][Next]_vars /\ \A p \in 1..MaxLoops : WF_vars(RunnerStep(p))

\* the pass of the mounted instance p is under way
Alive(p) == \E k \in 1..Len(loops) : loops[k].id = p

\* C11: every execution pass that has started finishes and shows the report,
\* with no other help than the timers of the simulator
C11_PassFinishes ==
  \A p \in 1..MaxLoops : [](Alive(p) => <>(~Alive(p) /\ currentView = REPORT))

C11_Witness ==
  /\ currentView = REPORT
  /\ loops = <<>>
  /\ activeProject # Null
  /\ AP.status = "Validated"
  /\ Len(AP.testCases) = MaxCases

C13_ProjectCreated ==
  [][ \A data \in ExtractAnswers :
        (RequirementsGathered(data) /\ data.suggestedProjectName # "") =>
          /\ activeProject' # Null
          /\ LET p == activeProject'[1]
                 k == Len(data.requirements)
             IN  /\ p.status = "Draft"
                 /\ p.testCases = <<>>
                 /\ Len(p.requirements) = k
                 /\ \A i \in 1..k : p.requirements[i].text = data.requirements[i].text
                 /\ \A i, j \in 1..k : i # j => p.requirements[i].id # p.requirements[j].id
                 /\ \A i \in 1..k : p.requirements[i].id # Null
                 /\ p.name = data.suggestedProjectName
                 /\ p.chatHistory = chat.messages
                 /\ db[p.id] = Null
                 /\ db' = [ db EXCEPT ![p.id] = Some(p) ]
          /\ currentView' = REVIEW_PLAN ]_vars

IsPrefix(s, t) == Len(s) <= Len(t) /\ \A i \in 1..Len(s) : s[i] = t[i]

\* C20: while the chat is shown its transcript only grows at the end; a send
\* appends the message of the user and issues one request; a request that
\* settles appends one message of the model, the reply or the error text; a
\* send is accepted after a failed one
C20_AppendOnly ==
  [][ (currentView = GATHER_REQUIREMENTS /\ currentView' = GATHER_REQUIREMENTS) =>
        /\ IsPrefix(chat.messages, chat'.messages)
        /\ Send(MaxChatMsgs) =>
              /\ chat'.messages = Append(chat.messages, UserMessage)
              /\ chat'.awaiting = chat.awaiting + 1
        /\ \A text \in ReplyTexts :
              ChatReply(text) =>
                /\ chat'.messages = Append(chat.messages, ModelMessage(text))
                /\ chat'.awaiting = chat.awaiting - 1
        /\ chat'.awaiting # chat.awaiting => Len(chat'.messages) = Len(chat.messages) + 1
        /\ ( /\ chat'.messages # <<>>
             /\ chat'.messages[Len(chat'.messages)] = ModelMessage(ErrorText)
             /\ Len(chat'.messages) < MaxChatMsgs
             /\ extracting'.cur = 0 )
            => (ENABLED Send(MaxChatMsgs))' ]_vars

C20_Witness ==
  /\ currentView = GATHER_REQUIREMENTS
  /\ Len(chat.messages) = 5
  /\ chat.messages[3] = ModelMessage(ErrorText)
  /\ chat.messages[4] = UserMessage
  /\ chat.messages[5] = ModelMessage("reply")

\* C15: when extractRequirements, generateTestCases, refineTestCase or
\* analyzeAndFixTestCase finally fails, the step leaves the active project, its
\* record, the view, the transcript and the form of the dialog as they are,
\* clears the flag of the operation, and the operation can be started again
C15_FailureRestores ==
  [][ /\ ( \/ ExtractFailed(TRUE)
           \/ \E k \in 1..MaxInFlight : GenerateFailed(k) \/ RefineFailed(k)
           \/ AiFixFailed )
          => UNCHANGED << currentView, activeProject, db, chat, editForm, selectedTest >>
      /\ ExtractFailed(TRUE) => (extracting.cur = 0 /\ ENABLED handleFinish)'
      /\ (\E k \in 1..MaxInFlight : GenerateFailed(k))
           => (generating = <<>> /\ ENABLED GenerateStart)'
      /\ (\E k \in 1..MaxInFlight : RefineFailed(k))
           => (generating = <<>> /\ \A i \in 1..Len(AP.testCases) : ENABLED RefineStart(i))'
      /\ AiFixFailed => (isFixing = Null /\ (selectedTest # Null => ENABLED handleAiFix))'
    ]_vars

C15_Witness ==
  /\ currentView = REVIEW_PLAN
  /\ generating # <<>>
  /\ generating[1].tc > 0
  /\ generating[1].shown


\* C14: retry makes at most three attempts, stops at the first response and
\* returns it, throws the last rejection when all three attempts fail, and waits
\* the base delay before the first retry and 1.5 times that before the second
C14_Retry ==
  LET n == Len(gateway.log)
      settled == gateway.pc \in { "returned", "done" }
  IN  /\ n <= DefaultRetries + 1
      /\ \A i \in 1..(n - 1) : gateway.log[i] \in TransportErrors
      /\ \A i \in 1..Len(gateway.waits) :
            gateway.waits[i] = IF i = 1 THEN DefaultDelay ELSE (DefaultDelay * 3) \div 2
      /\ gateway.pc \in { "call", "wait" } => Len(gateway.waits) = IF gateway.pc = "call" THEN n ELSE n - 1
      /\ settled =>
            /\ n >= 1
            /\ Len(gateway.waits) = n - 1
            /\ gateway.outcome = Some([ ok |-> gateway.log[n] \in Responses,
                                        what |-> gateway.log[n] ])
            /\ gateway.log[n] \in TransportErrors => n = DefaultRetries + 1

C14_Witness ==
  /\ gateway.pc = "done"
  /\ gateway.log = << "error A", "error A", "error B" >>
  /\ gateway.waits = << 1000, 1500 >>
  /\ gateway.result = Some([ ok |-> FALSE, what |-> "error B" ])

\* C16: a structured service that ends with an error for a response without
\* text or with text that is not JSON has made all three attempts
C16_BadResponseRetried ==
  ( /\ gateway.pc = "done"
    /\ gateway.op \in StructuredOps
    /\ ~gateway.result[1].ok
    /\ gateway.log[Len(gateway.log)] \in { "empty", "malformed" } )
  => Len(gateway.log) = DefaultRetries + 1


\* C17: over all the simulator loops alive at most one test case is RUNNING, and
\* every case before a RUNNING one in its list is PASSED or FAILED
C17_OneRunning ==
  LET running == { ki \in (1..Len(loops)) \X (1..MaxCases) :
                     /\ ki[2] <= Len(loops[ki[1]].updatedCases)
                     /\ loops[ki[1]].updatedCases[ki[2]].status = "RUNNING" }
  IN  /\ Cardinality(running) <= 1
      /\ \A ki \in running : \A j \in 1..(ki[2] - 1) :
            loops[ki[1]].updatedCases[j].status \in { "PASSED", "FAILED" }


\* C18: whenever there is an active project, the record stored under its id
\* equals it
C18_StoredEqualsActive ==
  activeProject # Null => db[AP.id] = activeProject


\* the completion of a model call or of a simulator loop whose view has been left
LateCompletion ==
  \/ ExtractDone(FALSE)
  \/ \E k \in 1..Len(generating), answer \in ModelAnswers :
        ~generating[k].shown /\ GenerateDone(k, answer)
  \/ \E k \in 1..Len(loops) :
        currentView # EXECUTION /\ (RunnerComplete(k) \/ RunnerNoPending(k))

\* C19: a late completion neither replaces the active project nor overwrites a
\* record nor switches the view
C19_NoLateChange ==
  [][ LateCompletion => UNCHANGED << activeProject, db, currentView >> ]_vars


\* C21: the step that applies the result of a refine replaces the title and the
\* steps of the refined test case by those of the result and leaves its id,
\* requirement id, status, logs, evidence image and failure fields, and the
\* status of the project, as they were
C21_RefineFrame ==
  [][ \A k \in 1..MaxInFlight, result \in RefineResults :
        (RefineDone(k, result) /\ activeProject # Null) =>
          LET i == generating[k].tc
              before == AP.testCases[i]
              after == activeProject'[1].testCases[i]
          IN  /\ after.title = result.title
              /\ after.steps = result.steps
              /\ after.id = before.id
              /\ after.requirementId = before.requirementId
              /\ after.status = before.status
              /\ after.logs = before.logs
              /\ after.screenshotUrl = before.screenshotUrl
              /\ after.failedStepNumber = before.failedStepNumber
              /\ after.failureReason = before.failureReason
              /\ activeProject'[1].status = AP.status ]_vars


\* the description resolved for a row is missing, empty or only white space
BlankDescription(row) ==
  LET d == RowDescription(row)
  IN  \/ d.kind \in { "undefined", "null" }
      \/ d.kind = "string" /\ trim(d.text) = <<>>

\* text is the text of a cell of the row
TextOfRow(text, row) ==
  \E i \in 1..Len(row) : row[i].val.kind \in { "string", "number" } /\ StringOf(row[i].val) = text

\* C22: a row whose resolved description is missing, empty or white space gives
\* no requirement, and every imported requirement has a description that is
\* not blank and is text of its row
C22_BlankRowsDropped ==
  [][ \A jsonData \in Sheets :
        FileImported(jsonData) =>
          LET reqs == activeProject'[1].requirements
          IN  /\ \A index \in 1..Len(jsonData) :
                    BlankDescription(jsonData[index])
                      => \A j \in 1..Len(reqs) : reqs[j].id[3] # index
              /\ \A j \in 1..Len(reqs) :
                    /\ trim(reqs[j].description) # <<>>
                    /\ TextOfRow(reqs[j].description, jsonData[reqs[j].id[3]]) ]_vars

\* C23: a row whose Priority contains high in any letter case gives priority
\* High, and a row without Priority gives Medium
C23_HighPriority ==
  [][ \A jsonData \in Sheets :
        FileImported(jsonData) =>
          LET reqs == activeProject'[1].requirements
          IN  \A j \in 1..Len(reqs) :
                LET row == jsonData[reqs[j].id[3]]
                    raw == Cell(row, "Priority")
                IN  /\ ( raw.kind = "string"
                         /\ includes(toLowerCase(raw.text), << "h", "i", "g", "h" >>) )
                         => reqs[j].priority = "High"
                    /\ raw = Undefined => reqs[j].priority = "Medium" ]_vars


\* the fields of a project that are set at its creation
Created(project) ==
  << project.id, project.createdAt, project.requirements, project.chatHistory >>

C27_NoLostUpdate ==
  [][ \A k \in 1..MaxInFlight, result \in RefineResults :
        (RefineDone(k, result) /\ activeProject # Null /\ AP.id = generating[k].project.id) =>
          LET tc == generating[k].project.testCases[generating[k].tc]
          IN  activeProject' =
                Some([ AP EXCEPT !.testCases = RefinedCases(@, tc, result) ]) ]_vars

\* C28: saving a manual edit, applying the result of a refine and saving a fix
\* leave the number, the order and the identifiers of the test cases as they
\* are and change no test case but the one with the identifier of the edited one
C28_OnlyEditedCase ==
  [][ \A id \in { << stamp, index >> : stamp \in 0..MaxGenerations, index \in 1..MaxCases } :
        ( \/ saveTestChanges /\ editForm[1].id = id
          \/ \E k \in 1..MaxInFlight, result \in RefineResults :
                /\ RefineDone(k, result)
                /\ generating[k].project.testCases[generating[k].tc].id = id
          \/ handleSaveAndRetry /\ selectedTest[1].id = id )
        => /\ activeProject # Null
           /\ Len(activeProject'[1].testCases) = Len(AP.testCases)
           /\ \A i \in 1..Len(AP.testCases) :
                /\ activeProject'[1].testCases[i].id = AP.testCases[i].id
                /\ AP.testCases[i].id # id
                     => activeProject'[1].testCases[i] = AP.testCases[i] ]_vars


\* C25: a test case that a pass has set to FAILED carries the number of one of
\* its own steps and a reason of the fixed set, and one set to PASSED carries
\* neither
C25_FailureRecorded ==
  (currentView = REPORT /\ activeProject # Null) =>
    \A i \in 1..Len(AP.testCases) :
      LET tc == AP.testCases[i]
      IN  /\ tc.status = "FAILED" =>
                /\ tc.failedStepNumber # Null
                /\ \E j \in 1..Len(tc.steps) : tc.steps[j] = tc.failedStepNumber[1]
                /\ tc.failureReason # Null
                /\ \E r \in 1..Len(reasons) : reasons[r] = tc.failureReason[1]
          /\ tc.status = "PASSED" => (tc.failedStepNumber = Null /\ tc.failureReason = Null)


\* C26: no test case of the active project and none of a stored record is
\* RUNNING
C26_RunningIsLocal ==
  /\ activeProject # Null => CountStatus(AP.testCases, "RUNNING") = 0
  /\ \A i \in ProjectIds : db[i] # Null => CountStatus(db[i][1].testCases, "RUNNING") = 0

C26_Witness ==
  /\ currentView # EXECUTION
  /\ loops # <<>>
  /\ CountStatus(loops[1].updatedCases, "RUNNING") = 1
  /\ activeProject # Null
  /\ AP.id = loops[1].project.id
  /\ db[AP.id] = activeProject


\* C29: the header of the report says Passed, and the pass rate is 100, exactly
\* when every test case of the project is PASSED
C29_PassedBadge ==
  (currentView = REPORT /\ activeProject # Null /\ Len(AP.testCases) > 0) =>
    LET allPassed == CountStatus(AP.testCases, "PASSED") = Len(AP.testCases)
    IN  /\ passRate(AP) = 100 <=> allPassed
        /\ HeaderBadge(AP) = "Passed" <=> allPassed


\* every user message of the transcript is directly followed by a model message
Answered(messages) ==
  \A i \in 1..Len(messages) :
    messages[i].role = "user" => (i < Len(messages) /\ messages[i + 1].role = "model")

\* C30: at most one message awaits its reply, every user message but one that
\* is awaiting is directly followed by its model message, and the transcript
\* handed to the extraction has no unanswered user message
C30_OneAwaiting ==
  /\ chat.awaiting <= 1
  /\ chat.awaiting = 0 => Answered(chat.messages)
  /\ chat.awaiting = 1 => Answered(SubSeq(chat.messages, 1, Len(chat.messages) - 1))
  /\ extracting.cur = 1 => Answered(extracting.captured)

====
